---- MODULE Spec2Model ----
(***************************************************************************)
(* A model of the aeiou effect runtime:                                    *)
(*   - the single-slot mailbox            (src/src/context.rs)             *)
(*   - the handler chain with run()       (src/src/computation.rs)         *)
(*   - the task scheduler and its handler (src/src/new.rs)                 *)
(* Each part has its own specification over the shared variables; the      *)
(* variables of the other parts stay at their initial values.              *)
(***************************************************************************)
EXTENDS Integers, Sequences, FiniteSets, TLC

\* ---------------------------------------------------------------- bounds
\* Number of put/take operations applied to the stand-alone mailbox.
MaxOps == 5
\* Number of requests the inner generator of a handler chain yields.
MaxProg == 3
\* Number of handler layers attached with Computation::add_handler.
MaxLayers == 2
\* Number of requests the root yields before it completes.
MaxRootYields == 3
\* Number of values a sub-task yields before it completes.
MaxTaskYields == 3

VARIABLES
    context,    \* the shared mailbox, Rc<RefCell<Option<T>>>: <<>> or <<v>>
    hist,       \* mailbox part: the operations applied so far, with results
    prog,       \* chain part: the requests the inner generator yields, in order
    handlers,   \* chain part: the attached handlers, first attached first
    cpos,       \* chain part: how many requests the inner generator has yielded
    cpc,        \* chain part: "resume" | "offer" | "done" | "panic" (run's),
                \*   "hpanic" (inside a handler), "gpanic" (inside the generator)
    req,        \* chain part: the request on its way outward, <<>> or <<r>>
    level,      \* chain part: the layer the request is offered to
    yields,     \* chain part: per layer, the requests it yielded to its caller
    calls,      \* chain part: the handler invocations, in order
    streams,    \* chain part: per layer, the addresses its handler has a stream for
    generator,  \* scheduler: the root, Option<G>: None once it completed
    tasks,      \* scheduler: the task table, BTreeMap<Id, T>
    new_tasks,  \* scheduler: the table being rebuilt during a tick
    iter,       \* scheduler: the entries the for loop has still to visit
    spc,        \* scheduler: "root" | "yieldRoot" | "poll" | "yieldTask" | "done"
    sout,       \* scheduler: the request it is suspended on, <<>> or <<y>>
    lpc,        \* Block::add_handler layer: "run" | "yield" | "done" | "panic"
    lout,       \* Block::add_handler layer: the NewYield it is suspended on
    log,        \* scheduler: what happened in the current tick, in order
    ticks,      \* scheduler: completed passes of the loop
    rootResumes,\* scheduler: how often the root was resumed
    spawnOrder, \* scheduler: the ids of the Spawn requests of the root, in order
    completed   \* scheduler: the sub-computations that signalled completion

mboxVars == <<hist>>
chainVars == <<prog, handlers, cpos, cpc, req, level, yields, calls, streams>>
schedVars == <<generator, tasks, new_tasks, iter, spc, sout, lpc, lout, log,
               ticks, rootResumes, spawnOrder, completed>>
vars == <<context, hist, prog, handlers, cpos, cpc, req, level, yields, calls,
          streams,
          generator, tasks, new_tasks, iter, spc, sout, lpc, lout, log,
          ticks, rootResumes, spawnOrder, completed>>

\* ---------------------------------------------------------------- mailbox
\* Option<T> is a sequence of length at most one.
None == <<>>
Some(v) == <<v>>

\* Context::empty / Context::default
ContextEmpty == None

\* A put that keeps an unconsumed value (queue-like slip).
ContextPutKeep(c, v) == IF c = None THEN Some(v) ELSE c

\* Context::put: *self.0.borrow_mut() = Some(value)
ContextPut(c, v) == Some(v)

\* Context::take: self.0.borrow_mut().take()
ContextTake(c) == [ret |-> c, ctx |-> None]

\* The result type of examples/hello_world.rs: EffectsOutput, of which two
\* variants carry a #[part(..)] attribute.
OutVariants == {"ListenedTcp", "ConnectedTcp", "ReadTcp", "WrittenTcp", "Printed"}
OutPayloads == {1, 2}
SelectOutputs ==
    [variant : {"ListenedTcp", "ConnectedTcp", "ReadTcp"}, v : OutPayloads]
        \cup [variant : {"WrittenTcp", "Printed"}, v : {0}]
Parts == {"AcceptedTcp", "ReadTcp"}

\* #[part(AcceptedTcp)] ListenedTcp(..), #[part(ReadTcp)] ReadTcp(..)
PartVariant(p) == IF p = "AcceptedTcp" THEN "ListenedTcp" ELSE "ReadTcp"

\* The derived Select::<Part>::take:
\*   match output.take()? { Self::Variant(v) => Some(Part(v)), _ => None }
SelectTake(c, p) ==
    LET t == ContextTake(c)
    IN IF t.ret = None
       THEN [ret |-> None, ctx |-> t.ctx]
       ELSE IF t.ret[1].variant = PartVariant(p)
            THEN [ret |-> Some([part |-> p, v |-> t.ret[1].v]), ctx |-> t.ctx]
            ELSE [ret |-> None, ctx |-> t.ctx]

MboxVals == {1, 2}

MboxIdle == /\ hist = <<>>

ChainIdle ==
    /\ prog = <<>>
    /\ handlers = <<>>
    /\ cpos = 0
    /\ cpc = "idle"
    /\ req = None
    /\ level = 0
    /\ yields = <<>>
    /\ calls = <<>>
    /\ streams = <<>>

\* BTreeMap::new()
EmptyMap == [k \in {} |-> 0]

SchedIdle ==
    /\ generator = None
    /\ tasks = EmptyMap
    /\ new_tasks = EmptyMap
    /\ iter = EmptyMap
    /\ spc = "idle"
    /\ sout = None
    /\ lpc = "idle"
    /\ lout = None
    /\ log = <<>>
    /\ ticks = 0
    /\ rootResumes = 0
    /\ spawnOrder = <<>>
    /\ completed = {}

MboxInit ==
    /\ context = ContextEmpty
    /\ MboxIdle
    /\ ChainIdle
    /\ SchedIdle

\* put(v): every put carries the number of the operation, so that two puts
\* of the same payload are still two values.
MboxPut(v) ==
    /\ Len(hist) < MaxOps
    /\ LET val == [val |-> v, n |-> Len(hist) + 1]
       IN /\ context' = ContextPut(context, val)
          /\ hist' = Append(hist, [op |-> "put", arg |-> Some(val)])
    /\ UNCHANGED <<chainVars, schedVars>>

MboxTake ==
    /\ Len(hist) < MaxOps
    /\ LET t == ContextTake(context)
       IN /\ context' = t.ctx
          /\ hist' = Append(hist, [op |-> "take", arg |-> t.ret])
    /\ UNCHANGED <<chainVars, schedVars>>

MboxNext ==
    \/ \E v \in MboxVals : MboxPut(v)
    \/ MboxTake

SpecMailbox == MboxInit /\ [][MboxNext]_vars

\* Index of the last take before operation i (0 when there is none).
PrevTake(i) ==
    LET S == {j \in 1..(i - 1) : hist[j].op = "take"}
    IN IF S = {} THEN 0 ELSE CHOOSE j \in S : \A k \in S : k <= j

\* What the single-slot law says the take at i returns.
ExpectedTake(i) ==
    LET P == {j \in (PrevTake(i) + 1)..(i - 1) : hist[j].op = "put"}
    IN IF P = {} THEN None
       ELSE hist[CHOOSE j \in P : \A k \in P : k <= j].arg

\* C1: every take returns the value of the most recent put since the last
\* take, or empty when there was none, and no put is returned by two takes.
C1_SingleSlot ==
    /\ \A i \in 1..Len(hist) :
          hist[i].op = "take" => hist[i].arg = ExpectedTake(i)
    /\ \A i, j \in 1..Len(hist) :
          (/\ i < j
           /\ hist[i].op = "take"
           /\ hist[j].op = "take"
           /\ hist[i].arg # None) => hist[i].arg # hist[j].arg

\* put(a); put(b); take() = b; take() = empty, with a # b.
C1_Witness ==
    /\ Len(hist) >= 4
    /\ hist[1].op = "put"
    /\ hist[2].op = "put"
    /\ hist[1].arg[1].val # hist[2].arg[1].val
    /\ hist[3].op = "take"
    /\ hist[3].arg = hist[2].arg
    /\ hist[4].op = "take"
    /\ hist[4].arg = None
    /\ context = None

\* ---------------------------------------------------------------- handler chain
\* The request type: Effects of examples/hello_world.rs, a kind with a
\* payload (a port or an address); WriteTcp also carries a message.
EffectKinds == {"ListenTcp", "ConnectTcp", "ReadTcp", "WriteTcp", "Print"}
TcpKinds == {"ListenTcp", "ConnectTcp", "ReadTcp", "WriteTcp"}
EffectArgs == {1, 2}
EffectMsgs == {1}
Effects ==
    [kind : EffectKinds \ {"WriteTcp"}, arg : EffectArgs]
        \cup [kind : {"WriteTcp"}, arg : EffectArgs, msg : EffectMsgs]

\* A handler is given by the kinds it does not decline: a handler that
\* declines everything, TcpHandler (declines Print), the closure of main
\* (Print only), and a handler for all kinds.
HandlerSet == {{}, TcpKinds, {"Print"}, EffectKinds}

\* Handler::handle on a handler with the streams st. A kind the handler does
\* not know is returned as Err, unchanged. Otherwise every arm unwrap()s its
\* I/O and panics when it fails (io = FALSE); ListenTcp accepts a peer a and
\* keeps its stream, ConnectTcp keeps the stream of its address, ReadTcp and
\* WriteTcp panic at get_mut(&addr).unwrap() without a stream; else ReadTcp
\* reads a and WriteTcp answers WrittenTcp.
Handle(h, st, e, a, io) ==
    IF e.kind \notin h
    THEN [res |-> "err", val |-> e, st |-> st]
    ELSE IF ~io
    THEN [res |-> "panic", val |-> e, st |-> st]
    ELSE IF e.kind = "ListenTcp"
    THEN [res |-> "ok", val |-> [variant |-> "ListenedTcp", v |-> a], st |-> st \cup {a}]
    ELSE IF e.kind = "ConnectTcp"
    THEN [res |-> "ok", val |-> [variant |-> "ConnectedTcp", v |-> e.arg],
          st |-> st \cup {e.arg}]
    ELSE IF e.kind = "ReadTcp"
    THEN IF e.arg \in st
         THEN [res |-> "ok", val |-> [variant |-> "ReadTcp", v |-> a], st |-> st]
         ELSE [res |-> "panic", val |-> e, st |-> st]
    ELSE IF e.kind = "WriteTcp"
    THEN IF e.arg \in st
         THEN [res |-> "ok", val |-> [variant |-> "WrittenTcp", v |-> 0], st |-> st]
         ELSE [res |-> "panic", val |-> e, st |-> st]
    ELSE [res |-> "ok", val |-> [variant |-> "Printed", v |-> 0], st |-> st]

\* What a call of the handler can give, over what the network does.
HandleOutcomes(h, st, e) ==
    {Handle(h, st, e, a, io) : a \in EffectArgs, io \in BOOLEAN}

\* A layer that also yields the request it handled.
AddHandlerStepLeak(r, ctx, e) ==
    IF r.res = "ok"
    THEN [ctx |-> Some(r.val), yield |-> Some(e), ok |-> TRUE]
    ELSE [ctx |-> ctx, yield |-> Some(r.val), ok |-> FALSE]

\* A layer that swallows a declined request and resumes the inner generator.
AddHandlerStepDrop(r, ctx, e) ==
    IF r.res = "ok"
    THEN [ctx |-> Some(r.val), yield |-> None, ok |-> TRUE]
    ELSE [ctx |-> ctx, yield |-> None, ok |-> FALSE]

\* A layer that resumes the inner generator without storing the result.
AddHandlerStepNoStore(r, ctx, e) ==
    IF r.res = "ok"
    THEN [ctx |-> ctx, yield |-> None, ok |-> TRUE]
    ELSE [ctx |-> ctx, yield |-> Some(r.val), ok |-> FALSE]

\* One turn of the loop of Computation::add_handler after the inner
\* generator yielded e and the handler returned r: Ok stores the result and
\* loops, Err yields it.
AddHandlerStep(r, ctx, e) ==
    IF r.res = "ok"
    THEN [ctx |-> Some(r.val), yield |-> None, ok |-> TRUE]
    ELSE [ctx |-> ctx, yield |-> Some(r.val), ok |-> FALSE]

\* A run() that goes on resuming after a request reached it.
ComputationRunOnLoop(gs) == IF gs = "Complete" THEN "done" ELSE "resume"

\* Computation::run, on what the resume of the outermost generator gave:
\* Complete => return, Yielded(effects) => panic!("unhandled effects").
ComputationRunOn(gs) == IF gs = "Complete" THEN "done" ELSE "panic"

Progs == UNION {[1..n -> Effects] : n \in 0..MaxProg}
HandlerChains == UNION {[1..n -> HandlerSet] : n \in 0..MaxLayers}

\* into_computation, add_handler (0..MaxLayers times), then run(): run resumes
\* the outermost generator, which resumes inward down to the inner generator.
ChainInit ==
    /\ context = ContextEmpty
    /\ MboxIdle
    /\ prog \in Progs
    /\ handlers \in HandlerChains
    /\ cpos = 0
    /\ cpc = "resume"
    /\ req = None
    /\ level = 0
    /\ yields = [k \in 1..Len(handlers) |-> <<>>]
    /\ calls = <<>>
    /\ streams = [k \in 1..Len(handlers) |-> {}]
    /\ SchedIdle

\* The inner generator is resumed and yields its next request. On the way it
\* may take what the mailbox holds (Context::take, or the Select::take of a
\* perform!(e, ctx) that finds its part) or leave it (perform!(e)).
InnerYield ==
    /\ cpc = "resume"
    /\ cpos < Len(prog)
    /\ \E take \in BOOLEAN :
         context' = IF take THEN ContextTake(context).ctx ELSE context
    /\ cpos' = cpos + 1
    /\ req' = Some(prog[cpos + 1])
    /\ level' = 1
    /\ cpc' = "offer"
    /\ UNCHANGED <<hist, prog, handlers, yields, calls, streams, schedVars>>

\* The inner generator is resumed and completes, after taking what the
\* mailbox holds or not: every layer returns on GeneratorState::Complete,
\* and so does run().
InnerComplete ==
    /\ cpc = "resume"
    /\ cpos = Len(prog)
    /\ \E take \in BOOLEAN :
         context' = IF take THEN ContextTake(context).ctx ELSE context
    /\ cpc' = ComputationRunOn("Complete")
    /\ UNCHANGED <<hist, prog, handlers, cpos, req, level, yields, calls, streams,
                   schedVars>>

\* The inner generator is resumed in a perform!(e, ctx) whose part the
\* mailbox does not hold: Select::take(ctx) empties the mailbox and returns
\* None, unwrap() panics.
InnerPanic ==
    /\ cpc = "resume"
    /\ cpos > 0
    /\ \E p \in Parts :
         LET s == SelectTake(context, p)
         IN /\ s.ret = None
            /\ context' = s.ctx
    /\ cpc' = "gpanic"
    /\ UNCHANGED <<hist, prog, handlers, cpos, req, level, yields, calls, streams,
                   schedVars>>

\* Layer `level` receives the request yielded by the generator below it and
\* calls its handler, which returns or panics.
LayerStep ==
    /\ cpc = "offer"
    /\ level \in 1..Len(handlers)
    /\ \E r \in HandleOutcomes(handlers[level], streams[level], req[1]) :
         /\ calls' = Append(calls, [layer |-> level, req |-> req[1],
                                    ok |-> r.res = "ok", panic |-> r.res = "panic",
                                    val |-> IF r.res = "ok" THEN Some(r.val) ELSE None])
         /\ streams' = [streams EXCEPT ![level] = r.st]
         /\ IF r.res = "panic"
            THEN /\ cpc' = "hpanic"
                 /\ UNCHANGED <<context, req, level, yields>>
            ELSE LET s == AddHandlerStep(r, context, req[1])
                 IN /\ context' = s.ctx
                    /\ IF s.yield = None
                       THEN /\ cpc' = "resume"
                            /\ req' = None
                            /\ level' = 0
                            /\ UNCHANGED yields
                       ELSE /\ cpc' = "offer"
                            /\ req' = s.yield
                            /\ level' = level + 1
                            /\ yields' = [yields EXCEPT ![level] = Append(@, s.yield[1])]
    /\ UNCHANGED <<hist, prog, handlers, cpos, schedVars>>

\* Computation::run: a request that reaches it is a panic.
RunPanic ==
    /\ cpc = "offer"
    /\ level = Len(handlers) + 1
    /\ cpc' = ComputationRunOn("Yielded")
    /\ UNCHANGED <<context, hist, prog, handlers, cpos, req, level, yields, calls,
                   streams, schedVars>>

ChainNext ==
    \/ InnerYield
    \/ InnerComplete
    \/ InnerPanic
    \/ LayerStep
    \/ RunPanic

\* run() is one synchronous loop around code of the user, which may not
\* return: a handler may block in handle() (accept(), read()) and a
\* generator may spin inside a resume. A behaviour that stays for ever in a
\* state where a handler is called or the generator is resumed is such a
\* run, so no fairness is assumed for LayerStep, InnerYield, InnerComplete
\* and InnerPanic. Only run() itself goes on: in the arm
\* `GeneratorState::Yielded(_) => panic!("unhandled effects")` nothing stands
\* between the yield that reached it and the panic.
SpecChain == ChainInit /\ [][ChainNext]_vars /\ WF_vars(RunPanic)

\* The requests the inner generator has yielded so far.
InnerYields == SubSeq(prog, 1, cpos)

\* The requests that arrived at layer k from below.
LowerYields(k) == IF k = 1 THEN InnerYields ELSE yields[k - 1]

Front(s) == SubSeq(s, 1, Len(s) - 1)

\* The first attached handler declines no request of the computation.
AllAccepted ==
    /\ Len(handlers) >= 1
    /\ \A i \in 1..Len(prog) : prog[i].kind \in handlers[1]

\* The code of the user panicked: a handler in handle(), or the generator
\* in the unwrap() of perform!.
UserPanic == cpc \in {"hpanic", "gpanic"}

\* A handler is being called: a request is offered to a layer.
InHandler == cpc = "offer" /\ level \in 1..Len(handlers)

\* Every call of a handler returns (or panics): the run never stays in one.
HandlerReturns == []<>(~InHandler)

\* Every resume of the generator returns (or panics).
GeneratorReturns == []<>(cpc # "resume")

\* The layer never yields to its caller and run() never reports an
\* unhandled effect.
C2_NothingSurfaced ==
    /\ cpc # "panic"
    /\ \A k \in 1..Len(handlers) : yields[k] = <<>>

\* C2 as stated: when the attached handler accepts every request the
\* computation yields, the layer never yields to its caller, run() never
\* reports an unhandled effect, and the run reaches completion (even
\* granted that every handler call and every resume returns).
C2_RoundTripCompletes ==
    /\ [](AllAccepted => C2_NothingSurfaced)
    /\ (AllAccepted /\ HandlerReturns /\ GeneratorReturns) => <>(cpc = "done")

\* C2 as amended: when the attached handler declines no request of the
\* computation, the layer never yields to its caller and run() never
\* reports an unhandled effect; if every handler call and every resume of
\* the generator returns, the run ends, by completion after every request
\* was answered Ok by the attached handler, or by a panic raised in a
\* handler call or in the unwrap of perform!.
C2_RoundTrip ==
    /\ [](AllAccepted =>
            /\ C2_NothingSurfaced
            /\ cpc = "done" =>
                  /\ Len(calls) = Len(prog)
                  /\ \A i \in 1..Len(calls) :
                        /\ calls[i].layer = 1
                        /\ calls[i].ok
                        /\ calls[i].req = prog[i])
    /\ (AllAccepted /\ HandlerReturns /\ GeneratorReturns) =>
           <>(cpc = "done" \/ UserPanic)

\* A run of two or more requests, all handled, that completed.
C2_Witness ==
    /\ AllAccepted
    /\ Len(prog) >= 2
    /\ cpc = "done"
    /\ Len(calls) = Len(prog)
    /\ \A i \in 1..Len(calls) : calls[i].ok

\* The requests handler k declined, in order.
RECURSIVE DeclinedBy(_, _)
DeclinedBy(k, cs) ==
    IF cs = <<>> THEN <<>>
    ELSE LET rest == DeclinedBy(k, Tail(cs))
         IN IF Head(cs).layer = k /\ ~Head(cs).ok /\ ~Head(cs).panic
            THEN <<Head(cs).req>> \o rest
            ELSE rest

\* C3: a layer yields exactly the requests its handler declined, unchanged
\* and in order; a layer whose handler always declines yields exactly the
\* sequence of requests the generator below it yielded.
C3_DeclinePropagates ==
    \A k \in 1..Len(handlers) :
        /\ yields[k] = DeclinedBy(k, calls)
        /\ handlers[k] = {} =>
              yields[k] = IF cpc = "offer" /\ level = k
                          THEN Front(LowerYields(k))
                          ELSE LowerYields(k)

\* An always-declining first layer under a layer that keeps the run going:
\* it has passed on two different requests.
C3_Witness ==
    /\ Len(handlers) >= 2
    /\ handlers[1] = {}
    /\ Len(yields[1]) >= 2
    /\ yields[1][1] # yields[1][2]
    /\ yields[1] = InnerYields

\* ---------------------------------------------------------------- scheduler
\* The ids of the tasks the root spawns, the payloads of its effect
\* requests, and the values the tasks put out.
TaskIds == {1, 2, 3}
ReqArgs == {1}
OutVals == {1, 2}

\* enum Req { ThrowEffect(Effect), Spawn(Task) } of tests::simple_tcp.
Reqs == [kind : {"ThrowEffect"}, arg : ReqArgs] \cup [kind : {"Spawn"}, arg : TaskIds]

\* The requests a sub-task yields as Either::Left: an effect, or a Spawn
\* (which is_effect() does not match).
TaskReqs == {[kind |-> "ThrowEffect", arg |-> 1], [kind |-> "Spawn", arg |-> 1]}

\* Request::is_task: Ok for Req::Spawn, Err(self) otherwise.
IsTask(y) == y.kind = "Spawn"

\* Request::is_effect: Ok for Req::ThrowEffect, Err(self) otherwise.
IsEffect(y) == y.kind = "ThrowEffect"

\* TaskId::task_id
TaskIdOf(y) == y.arg

\* task_gen(task): a fresh sub-computation. gen tells the instances apart, n
\* counts its yields, last is what its previous poll put out (None or Some).
TaskGen(y, serial) == [gen |-> serial, n |-> 0, last |-> None]

\* The values of the Output type: a handler's response or a task's output.
Handled(e) == [tag |-> "handled", v |-> e.arg]
Output(v) == [tag |-> "output", v |-> v]

\* An insert that keeps the entry of a present key.
MapInsertKeep(m, k, v) ==
    [x \in DOMAIN m \cup {k} |-> IF x \in DOMAIN m THEN m[x] ELSE v]

\* BTreeMap::insert: a present key is replaced.
MapInsert(m, k, v) ==
    [x \in DOMAIN m \cup {k} |-> IF x = k THEN v ELSE m[x]]

MapRemove(m, k) == [x \in DOMAIN m \ {k} |-> m[x]]

\* An iteration that starts from the greatest key.
LastKey(m) == CHOOSE k \in DOMAIN m : \A j \in DOMAIN m : j <= k

\* BTreeMap::into_iter yields the entries in ascending key order.
FirstKey(m) == CHOOSE k \in DOMAIN m : \A j \in DOMAIN m : k <= j

\* An exit as soon as either holds.
ExitConditionEither(g, t) == g = None \/ DOMAIN t = {}

\* generator.is_none() && tasks.is_empty()
ExitCondition(g, t) == g = None /\ DOMAIN t = {}

\* A root that is kept after it completed.
OnRootCompleteKeep(g) == g

\* GeneratorState::Complete(()) => { let _ = generator.take(); }
OnRootComplete(g) == None

\* A completed task that is kept in the rebuilt table.
OnTaskCompleteKeep(nt, id, t) == MapInsert(nt, id, t)

\* GeneratorState::Complete(()) => (): nothing is inserted into new_tasks.
OnTaskComplete(nt, id, t) == nt

\* A pass that classifies what a task forwards as it does for the root, and
\* inserts the task of a spawn request.
OnTaskForwardClassify(nt, id, t, y) ==
    IF IsTask(y)
    THEN MapInsert(MapInsert(nt, id, t), TaskIdOf(y), TaskGen(y, 0))
    ELSE MapInsert(nt, id, t)

\* new_tasks.insert(id, task), then Either::Left(further) => yield further:
\* the request is not looked at.
OnTaskForward(nt, id, t, y) == MapInsert(nt, id, t)

\* A forward of the root that is put off: the tick goes on to the tasks.
RootYieldTargetSkip(y) == "poll"

\* Where the scheduler goes with a request of the root: Ok(task) inserts
\* and falls through to the tasks, Err(y) => yield y.
RootYieldTarget(y) == IF IsTask(y) THEN "poll" ELSE "yieldRoot"

\* The entries of the log of a tick.
Ev(who, what, id, val) == [who |-> who, what |-> what, id |-> id, val |-> val]

SchedInit ==
    /\ context = ContextEmpty
    /\ MboxIdle
    /\ ChainIdle
    /\ generator = Some(0)
    /\ tasks = EmptyMap
    /\ new_tasks = EmptyMap
    /\ iter = EmptyMap
    /\ spc = "root"
    /\ sout = None
    /\ lpc = "run"
    /\ lout = None
    /\ log = <<>>
    /\ ticks = 0
    /\ rootResumes = 0
    /\ spawnOrder = <<>>
    /\ completed = {}

\* The root is resumed (line 118). It may first take what the mailbox holds;
\* then it completes, or yields a request while it has some left.
RootResume ==
    /\ spc = "root"
    /\ generator # None
    /\ rootResumes' = rootResumes + 1
    /\ \E take \in BOOLEAN :
         context' = IF take THEN ContextTake(context).ctx ELSE context
    /\ \/ /\ generator' = OnRootComplete(generator)
          /\ log' = <<Ev("root", "complete", 0, None)>>
          /\ spc' = "poll"
          /\ new_tasks' = EmptyMap
          /\ iter' = tasks
          /\ UNCHANGED <<tasks, sout, spawnOrder>>
       \/ /\ generator[1] < MaxRootYields
          /\ \E y \in Reqs :
               /\ generator' = Some(generator[1] + 1)
               /\ IF IsTask(y)
                  THEN /\ tasks' = MapInsert(tasks, TaskIdOf(y),
                                             TaskGen(y, Len(spawnOrder) + 1))
                       /\ spawnOrder' = Append(spawnOrder, TaskIdOf(y))
                       /\ log' = <<Ev("root", "spawn", TaskIdOf(y), Some(y))>>
                  ELSE /\ log' = <<Ev("root", "forward", 0, Some(y))>>
                                 \o IF RootYieldTarget(y) = "yieldRoot"
                                    THEN <<Ev("sched", "yield", 0, Some(y))>>
                                    ELSE <<>>
                       /\ UNCHANGED <<tasks, spawnOrder>>
               /\ spc' = RootYieldTarget(y)
               /\ IF RootYieldTarget(y) = "poll"
                  THEN /\ new_tasks' = EmptyMap
                       /\ iter' = tasks'
                       /\ sout' = None
                  ELSE /\ sout' = Some(y)
                       /\ UNCHANGED <<new_tasks, iter>>
    /\ UNCHANGED <<hist, chainVars, lpc, lout, ticks, completed>>

\* The root is dead: `if let Some(g) = generator.as_mut()` is skipped.
RootSkip ==
    /\ spc = "root"
    /\ generator = None
    /\ log' = <<>>
    /\ spc' = "poll"
    /\ new_tasks' = EmptyMap
    /\ iter' = tasks
    /\ UNCHANGED <<context, hist, chainVars, generator, tasks, sout, lpc, lout,
                   ticks, rootResumes, spawnOrder, completed>>

\* One turn of `for (id, mut task) in tasks`: the next task is resumed and
\* completes, yields Either::Left(request) or yields Either::Right(output).
PollTask ==
    /\ spc = "poll"
    /\ DOMAIN iter # {}
    /\ LET id == FirstKey(iter)
           t == iter[id]
           t1 == [t EXCEPT !.n = @ + 1, !.last = None]
       IN /\ iter' = MapRemove(iter, id)
          /\ \/ /\ new_tasks' = OnTaskComplete(new_tasks, id, t)
                /\ completed' = completed \cup {t.gen}
                /\ log' = Append(log, Ev("task", "complete", id, t.last))
                /\ UNCHANGED <<context, spc, sout>>
             \/ /\ t.n < MaxTaskYields
                /\ \E y \in TaskReqs :
                     /\ new_tasks' = OnTaskForward(new_tasks, id, t1, y)
                     /\ log' = log \o <<Ev("task", "forward", id, Some(y)),
                                        Ev("sched", "yield", id, Some(y))>>
                     /\ spc' = "yieldTask"
                     /\ sout' = Some(y)
                     /\ UNCHANGED <<context, completed>>
             \/ /\ t.n < MaxTaskYields
                /\ \E v \in OutVals :
                     /\ new_tasks' = MapInsert(new_tasks, id,
                                                [t1 EXCEPT !.last = Some(Output(v))])
                     /\ context' = ContextPut(context, Output(v))
                     /\ log' = Append(log, Ev("task", "output", id, Some(Output(v))))
                     /\ UNCHANGED <<spc, sout, completed>>
    /\ UNCHANGED <<hist, chainVars, generator, tasks, lpc, lout, ticks,
                   rootResumes, spawnOrder>>

\* The end of a pass: tasks = new_tasks, then the exit test. When the
\* scheduler completes, the handler layer around it breaks out of its loop.
EndTick ==
    /\ spc = "poll"
    /\ DOMAIN iter = {}
    /\ tasks' = new_tasks
    /\ ticks' = ticks + 1
    /\ IF ExitCondition(generator, new_tasks)
       THEN spc' = "done" /\ lpc' = "done"
       ELSE spc' = "root" /\ lpc' = lpc
    /\ UNCHANGED <<context, hist, chainVars, generator, new_tasks, iter, sout,
                   lout, log, rootResumes, spawnOrder, completed>>

\* A scheduler whose pass ends at the first request a task forwards.
ResumeSchedulerAbort ==
    /\ sout' = None
    /\ spc' = "poll"
    /\ IF spc = "yieldRoot"
       THEN new_tasks' = EmptyMap /\ iter' = tasks
       ELSE new_tasks' = new_tasks /\ iter' = EmptyMap

\* The scheduler is resumed after a yield: after the root's (line 126) it
\* starts the pass over the tasks, after a task's (line 137) it goes on with it.
ResumeScheduler ==
    /\ sout' = None
    /\ spc' = "poll"
    /\ IF spc = "yieldRoot"
       THEN new_tasks' = EmptyMap /\ iter' = tasks
       ELSE UNCHANGED <<new_tasks, iter>>

\* One turn of the loop of Block::add_handler after the generator below
\* yielded y (lines 171-182): `if let Ok(effect) = y.is_effect()` calls the
\* handler, Ok(output) is put, Err(y) is yielded; there is no else branch.
BlockAddHandlerStep(y, ctx, ok) ==
    IF IsEffect(y)
    THEN IF ok
         THEN [ctx |-> ContextPut(ctx, Handled(y)), yield |-> None, called |-> TRUE]
         ELSE [ctx |-> ctx, yield |-> Some([unhandled |-> y]), called |-> TRUE]
    ELSE [ctx |-> ctx, yield |-> None, called |-> FALSE]

\* The handler layer receives the request the scheduler yielded; the
\* handler (a FnMut) accepts, declines or panics (the closure of
\* tests::simple_tcp unwrap()s every socket call). A panic unwinds through
\* the layer and the scheduler: nothing is resumed again.
BlockLayerStep ==
    /\ spc \in {"yieldRoot", "yieldTask"}
    /\ lpc = "run"
    /\ \E out \in {"ok", "err", "panic"} :
         IF out = "panic"
         THEN /\ IsEffect(sout[1])
              /\ lpc' = "panic"
              /\ log' = Append(log, Ev("handler", "panic", 0, None))
              /\ UNCHANGED <<context, spc, sout, new_tasks, iter, lout>>
         ELSE LET ok == out = "ok"
                  s == BlockAddHandlerStep(sout[1], context, ok)
              IN /\ context' = s.ctx
                 /\ log' = log
                           \o (IF s.called
                               THEN <<Ev("handler", out, 0,
                                         IF ok THEN Some(Handled(sout[1])) ELSE None)>>
                               ELSE <<>>)
                           \o (IF s.yield # None
                               THEN <<Ev("layer", "yield", 0, s.yield)>>
                               ELSE <<>>)
                 /\ IF s.yield = None
                    THEN ResumeScheduler /\ UNCHANGED <<lpc, lout>>
                    ELSE /\ lpc' = "yield"
                         /\ lout' = s.yield
                         /\ UNCHANGED <<spc, sout, new_tasks, iter>>
    /\ UNCHANGED <<hist, chainVars, generator, tasks, ticks, rootResumes,
                   spawnOrder, completed>>

\* The caller of the handler layer treats the request the layer yielded
\* and resumes the layer, which loops and resumes the scheduler. A layer
\* that can yield has no run(): its caller is a further Block::add_handler
\* on the same block, which shares the mailbox (context.clone()). When its
\* handler returns Ok(output) it puts output (line 175) before it resumes;
\* when its handler declines, its own caller resumes it in the end, and a
\* request that is no effect for it is dropped: the mailbox is left alone.
\* A caller that never resumes (its handler panics or blocks) is a
\* behaviour that stays in lpc = "yield".
OuterResume ==
    /\ lpc = "yield"
    /\ \E ok \in BOOLEAN :
         LET s == BlockAddHandlerStep(lout[1].unhandled, context, ok)
         IN /\ context' = s.ctx
            /\ log' = IF ok
                      THEN Append(log, Ev("outer", "ok", 0,
                                          Some(Handled(lout[1].unhandled))))
                      ELSE log
    /\ lpc' = "run"
    /\ lout' = None
    /\ ResumeScheduler
    /\ UNCHANGED <<hist, chainVars, generator, tasks, ticks,
                   rootResumes, spawnOrder, completed>>

Next ==
    \/ RootResume
    \/ RootSkip
    \/ PollTask
    \/ EndTick
    \/ BlockLayerStep
    \/ OuterResume

Init == SchedInit

Spec == Init /\ [][Next]_vars

\* ---------------------------------------------------------------- scheduler claims
IsPoll(e) == e.who = "task"
IsOutput(e) == e.who = "task" /\ e.what = "output"

\* The polls of the current tick, and the Outputs among them, in order.
Polled == SelectSeq(log, IsPoll)
Outs == SelectSeq(log, IsOutput)
PolledIds == [i \in 1..Len(Polled) |-> Polled[i].id]

\* The table is in `tasks` except during the pass, when the for loop owns it.
TableValid == spc \in {"root", "yieldRoot", "done"}
TickEnded == spc \in {"root", "done"} /\ ticks > 0

\* C4: every request the handler layer received from the generator below is
\* followed by a call of the handler (when is_effect() matches) or by a
\* yield of the layer with that request (the Rest case).
C4_RestSurfaced ==
    \A i \in 1..Len(log) :
        log[i].who = "sched" =>
            IF i = Len(log)
            THEN spc \in {"yieldRoot", "yieldTask"} /\ lpc = "run"
            ELSE IF IsEffect(log[i].val[1])
                 THEN log[i + 1].who = "handler"
                 ELSE log[i + 1] = Ev("layer", "yield", 0, Some([rest |-> log[i].val[1]]))

\* C5: the polls of a tick are in strictly ascending TaskId order.
C5_AscendingPolls ==
    \A i, j \in 1..Len(Polled) : i < j => Polled[i].id < Polled[j].id

\* Spawned in the order 3, 1, 2 and polled 1, 2, 3.
C5_Witness ==
    /\ spawnOrder = <<3, 1, 2>>
    /\ PolledIds = <<1, 2, 3>>

\* C6: when the root completed on its first resume, the first pass polls
\* nothing and yields nothing, and the scheduler completes at its end.
C6_ImmediateExit ==
    (/\ rootResumes = 1
     /\ log # <<>>
     /\ log[1] = Ev("root", "complete", 0, None)) =>
        /\ generator = None
        /\ DOMAIN tasks = {}
        /\ spawnOrder = <<>>
        /\ Len(log) = 1
        /\ sout = None
        /\ \/ spc = "poll" /\ ticks = 0 /\ DOMAIN iter = {}
           \/ spc = "done" /\ ticks = 1 /\ lpc = "done"

C6_Witness ==
    /\ rootResumes = 1
    /\ log = <<Ev("root", "complete", 0, None)>>
    /\ spc = "done"
    /\ ticks = 1

\* The greatest index of the log at which p holds (0 when none).
LastIndex(p(_)) ==
    LET S == {i \in 1..Len(log) : p(log[i])}
    IN IF S = {} THEN 0 ELSE CHOOSE i \in S : \A j \in S : j <= i

IsAnswer(e) == e.who \in {"handler", "outer"} /\ e.what = "ok"

\* C7 as stated: after a tick with two or more Outputs the mailbox holds
\* the Output of the task polled last, the one with the highest TaskId.
C7_LastOutputWins ==
    (TickEnded /\ Len(Outs) >= 2) =>
        /\ context = Outs[Len(Outs)].val
        /\ \A i \in 1..Len(Outs) : Outs[i].id <= Outs[Len(Outs)].id

\* What the shared mailbox does instead: the last Output of the tick is
\* that of the highest TaskId and replaces the earlier ones, but the result
\* a handler layer (the attached one or one further out) stored for a
\* request forwarded after it replaces it in turn.
C7_LastWriteWins ==
    (TickEnded /\ Len(Outs) >= 2) =>
        /\ \A i \in 1..(Len(Outs) - 1) : Outs[i].id < Outs[Len(Outs)].id
        /\ IF LastIndex(IsAnswer) < LastIndex(IsOutput)
           THEN context = Outs[Len(Outs)].val
           ELSE context = log[LastIndex(IsAnswer)].val

\* Tasks 1 and 2 put out different values in one tick; the mailbox has 2's.
C7_BothOutput ==
    /\ TickEnded
    /\ Len(Outs) = 2
    /\ Outs[1].id = 1
    /\ Outs[2].id = 2
    /\ Outs[1].val # Outs[2].val
    /\ context = Outs[2].val

\* C8: a Forward request of the root is the first thing of its tick and is
\* yielded by the scheduler at once, before any poll of that tick.
C8_ForwardBeforePoll ==
    /\ \A i \in 1..Len(log) :
          (log[i].who = "root" /\ log[i].what = "forward") =>
              /\ i = 1
              /\ Len(log) >= 2
              /\ log[2] = Ev("sched", "yield", 0, log[1].val)
    /\ spc = "yieldRoot" =>
          /\ Polled = <<>>
          /\ sout = log[1].val

\* The root yielded Spawn(A), then Forward(X): X was surfaced, then A polled.
C8_Witness ==
    /\ rootResumes = 2
    /\ Len(spawnOrder) = 1
    /\ Len(log) >= 3
    /\ log[1].who = "root"
    /\ log[1].what = "forward"
    /\ log[2].who = "sched"
    /\ \E i \in 3..Len(log) : log[i].who = "task" /\ log[i].id = spawnOrder[1]

\* C9: a task that yields Output(v) is kept, with v in the mailbox right
\* after that poll; a task whose poll signals completion is left out of the
\* rebuilt table, is absent from the table after the tick, and no completed
\* sub-computation is in the table or polled again.
C9_RemovedOnCompletion ==
    /\ \A i \in 1..Len(log) :
          /\ (IsPoll(log[i]) /\ log[i].what # "complete") =>
                log[i].id \in DOMAIN new_tasks
          /\ (IsOutput(log[i]) /\ i = Len(log)) => context = log[i].val
          /\ (IsPoll(log[i]) /\ log[i].what = "complete") =>
                /\ log[i].id \notin DOMAIN new_tasks
                /\ TickEnded => log[i].id \notin DOMAIN tasks
    /\ \A id \in DOMAIN iter : iter[id].gen \notin completed
    /\ \A id \in DOMAIN new_tasks : new_tasks[id].gen \notin completed
    /\ TableValid => \A id \in DOMAIN tasks : tasks[id].gen \notin completed

\* A task put out v at one poll and completed at its next: after that tick
\* it is gone and the mailbox still holds v.
C9_Witness ==
    /\ TickEnded
    /\ \E i \in 1..Len(log) :
          /\ IsPoll(log[i])
          /\ log[i].what = "complete"
          /\ log[i].val # None
          /\ context = log[i].val
          /\ log[i].id \notin DOMAIN tasks

\* The root was dead when the current tick began.
RootDeadAtStart == generator = None /\ (log = <<>> \/ log[1].who # "root")

C10_Inv ==
    /\ spc = "done" => generator = None /\ DOMAIN tasks = {} /\ DOMAIN iter = {}
    /\ (spc = "poll" /\ DOMAIN iter = {} /\ RootDeadAtStart) =>
          /\ DOMAIN tasks # {}
          /\ {PolledIds[i] : i \in 1..Len(PolledIds)} = DOMAIN tasks

C10_Act ==
    /\ (spc # "done" /\ spc' = "done") =>
          /\ spc = "poll"
          /\ DOMAIN iter = {}
          /\ ticks' = ticks + 1
          /\ generator = None
          /\ DOMAIN new_tasks = {}
    /\ generator = None => rootResumes' = rootResumes
    /\ (spc = "root" /\ generator = None) => spc' = "poll" /\ iter' = tasks

\* C10: the scheduler completes only at the end of a tick, with the root
\* dead and the table empty; a dead root is not resumed, and a tick that
\* starts with a dead root and a non-empty table polls every task.
C10_ExitCondition == [](C10_Inv) /\ [][C10_Act]_vars

\* The scheduler completed at the end of a tick that the root did not see.
C10_Witness ==
    /\ spc = "done"
    /\ log # <<>>
    /\ log[1].who = "task"
    /\ ticks >= 2


\* The number of the last Spawn request of the root for id (0 when none).
LastSpawn(id) ==
    LET S == {i \in 1..Len(spawnOrder) : spawnOrder[i] = id}
    IN IF S = {} THEN 0 ELSE CHOOSE i \in S : \A j \in S : j <= i

\* The entry of id, wherever the table is, is the latest instance spawned.
LatestOnly(t) == \A id \in DOMAIN t : t[id].gen = LastSpawn(id)

C11_Inv ==
    /\ LatestOnly(iter)
    /\ LatestOnly(new_tasks)
    /\ TableValid => LatestOnly(tasks)

\* A step in which the root yields Spawn: the entry of the id is the new
\* sub-computation, the other entries are as before, nothing is yielded.
C11_Act ==
    (/\ rootResumes' # rootResumes
     /\ log'[1].what = "spawn") =>
        LET id == log'[1].id
        IN /\ DOMAIN tasks' = DOMAIN tasks \cup {id}
           /\ tasks'[id] = [gen |-> Len(spawnOrder'), n |-> 0, last |-> None]
           /\ spawnOrder' = Append(spawnOrder, id)
           /\ \A x \in DOMAIN tasks \ {id} : tasks'[x] = tasks[x]
           /\ sout' = None
           /\ spc' = "poll"
           /\ iter' = tasks'

\* C11: a Spawn for an id that is in the table replaces the entry: the table
\* holds one entry for the id, the new sub-computation; the previous one is
\* never polled again; nothing is surfaced; the other entries are unchanged.
C11_DuplicateReplaces == [](C11_Inv) /\ [][C11_Act]_vars

\* The root spawned id 1 twice while the first instance was live: the pass
\* that follows has the second instance, not yet polled.
C11_Witness ==
    /\ spawnOrder = <<1, 1>>
    /\ 1 \notin completed
    /\ spc = "poll"
    /\ log = <<Ev("root", "spawn", 1, Some([kind |-> "Spawn", arg |-> 1]))>>
    /\ iter[1] = [gen |-> 2, n |-> 0, last |-> None]


\* ---------------------------------------------------------------- chain claims
\* The requests that reached run(): the yields of the outermost generator.
ReachedRun == IF Len(handlers) = 0 THEN InnerYields ELSE yields[Len(handlers)]

AtRun == cpc = "offer" /\ level = Len(handlers) + 1

C12_Inv ==
    /\ Len(ReachedRun) <= 1
    /\ cpc = "done" => ReachedRun = <<>> /\ cpos = Len(prog)
    /\ ReachedRun # <<>> => cpc = "panic" \/ AtRun
    /\ cpc = "panic" => Len(ReachedRun) = 1 /\ req = Some(ReachedRun[1])

C12_Act ==
    /\ cpc = "panic" => cpc' = "panic" /\ cpos' = cpos /\ calls' = calls
    /\ AtRun => cpc' \in {"offer", "panic"} /\ cpos' = cpos /\ calls' = calls

\* C12: run() returns only after the computation has completed, with no
\* request having reached it; at most one request ever reaches run(), run()
\* fails fatally on it, and from the moment it arrived the computation is
\* not resumed and no handler is called again.
C12_RunFailsFatally ==
    /\ [](C12_Inv)
    /\ [][C12_Act]_vars
    /\ AtRun ~> (cpc = "panic")

\* Two requests were handled, the third reached run(): the rest of the
\* program is never run.
C12_Witness ==
    /\ cpc = "panic"
    /\ Len(handlers) >= 1
    /\ cpos = 3
    /\ Len(calls) >= 3
    /\ calls[1].ok
    /\ ReachedRun = <<prog[3]>>


\* ---------------------------------------------------------------- scheduler claims, continued
IsYield(e) == e.who = "sched"
IsForward(e) == e.what = "forward"

\* The requests the scheduler yielded in the current tick.
Yielded == SelectSeq(log, IsYield)

\* C13 as stated: the scheduler yields at most one request in a tick.
C13_OneYieldPerTick == Len(Yielded) <= 1

C13_Inv ==
    /\ \A i \in 1..Len(log) :
          /\ IsYield(log[i]) =>
                /\ i > 1
                /\ IsForward(log[i - 1])
                /\ log[i - 1].val = log[i].val
          /\ IsForward(log[i]) => i < Len(log) /\ IsYield(log[i + 1])
    /\ Len(Yielded) <= 1 + Len(Polled)
    /\ sout # None <=> spc \in {"yieldRoot", "yieldTask"}

\* While a request is outstanding neither the root nor a task is resumed.
C13_Act ==
    sout # None =>
        /\ rootResumes' = rootResumes
        /\ SelectSeq(log', IsPoll) = Polled
        /\ SelectSeq(log', IsYield) = Yielded

\* C13 as amended: the scheduler yields one request for every Forward of the
\* root or of a polled task, so up to one plus the number of polls in a tick,
\* and it is suspended on each until it is resumed: no two are outstanding.
C13_OneYieldPerResume == [](C13_Inv) /\ [][C13_Act]_vars

\* A tick in which the root and two tasks each forwarded a request.
C13_Witness ==
    /\ TickEnded
    /\ Len(Yielded) = 3
    /\ log[1].who = "root"
    /\ Len(Polled) >= 2


\* The pass over the tasks is under way (possibly suspended on a task's request).
InPass == spc \in {"poll", "yieldTask"}
PolledSet == {PolledIds[i] : i \in 1..Len(PolledIds)}
KeptSet == {Polled[i].id : i \in {j \in 1..Len(Polled) : Polled[j].what # "complete"}}
PolledOnce == \A i, j \in 1..Len(PolledIds) : PolledIds[i] = PolledIds[j] => i = j

\* During the pass `tasks` is the table the pass began with: the tasks resumed
\* so far and those still to come partition it, nobody was resumed twice, and
\* the replacement table holds exactly those that yielded, one resume older.
C14_Inv ==
    /\ InPass =>
          /\ PolledSet \cup DOMAIN iter = DOMAIN tasks
          /\ PolledSet \cap DOMAIN iter = {}
          /\ PolledOnce
          /\ DOMAIN new_tasks = KeptSet
          /\ \A id \in DOMAIN iter : iter[id] = tasks[id]
          /\ \A id \in DOMAIN new_tasks :
                /\ new_tasks[id].gen = tasks[id].gen
                /\ new_tasks[id].n = tasks[id].n + 1
    /\ TickEnded => PolledOnce /\ DOMAIN tasks = KeptSet

\* A pass ends only when no task is left, and then hands over the kept tasks.
C14_PassAct ==
    (InPass /\ ~InPass') =>
        /\ DOMAIN iter = {}
        /\ spc = "poll"
        /\ tasks' = new_tasks

\* Between two passes every task of the table stays in it unchanged.
C14_KeptAct ==
    spc \in {"root", "yieldRoot"} =>
        \A id \in DOMAIN tasks : id \in DOMAIN tasks' /\ tasks'[id] = tasks[id]

\* Between two passes a task stays in the table unchanged unless the root
\* spawns a task of the same TaskId, which then takes its place unpolled.
C14_KeptUnlessReplacedAct ==
    spc \in {"root", "yieldRoot"} =>
        \A id \in DOMAIN tasks :
            /\ id \in DOMAIN tasks'
            /\ \/ tasks'[id] = tasks[id]
               \/ /\ log'[1] = Ev("root", "spawn", id, Some([kind |-> "Spawn", arg |-> id]))
                  /\ tasks'[id] = [gen |-> Len(spawnOrder'), n |-> 0, last |-> None]

\* C14 as stated: every task of the table at the start of a pass is resumed
\* exactly once in it, interrupted or not, and a task that yielded is kept
\* and is in the table of the next pass.
C14_PolledOnceAndKept == [](C14_Inv) /\ [][C14_PassAct /\ C14_KeptAct]_vars

\* C14 as amended: the same, except that a kept task is dropped unpolled
\* when the root's next resume spawns a task of the same TaskId.
C14_PolledOnceKeptUnlessReplaced ==
    [](C14_Inv) /\ [][C14_PassAct /\ C14_KeptUnlessReplacedAct]_vars

\* A pass interrupted by the request of task 1 went on to resume task 2,
\* and both were kept from the pass before.
C14_Witness ==
    /\ TickEnded
    /\ Len(Polled) >= 3
    /\ Polled[1] = Ev("task", "forward", 1, Some([kind |-> "ThrowEffect", arg |-> 1]))
    /\ Polled[2].id = 2
    /\ Polled[2].what = "output"
    /\ tasks[1].n >= 2
    /\ tasks[2].n >= 2


\* ---------------------------------------------------------------- both runtimes
\* A program of the repository runs a handler chain (computation.rs) or a
\* scheduler under a handler layer (new.rs).
InitAll == ChainInit \/ SchedInit
NextAll == ChainNext \/ Next
SpecAll == InitAll /\ [][NextAll]_vars

Gens(t) == {t[id].gen : id \in DOMAIN t}

C15_Inv ==
    \* the root that signalled completion is dead from that resume on
    /\ (log # <<>> /\ log[1] = Ev("root", "complete", 0, None)) => generator = None
    \* a completed task is in no table a pass will resume from
    /\ InPass => Gens(iter) \cap completed = {} /\ Gens(new_tasks) \cap completed = {}
    /\ TableValid => Gens(tasks) \cap completed = {}
    \* the layer around the scheduler completes with it
    /\ spc = "done" <=> lpc = "done"
    \* the chain is done only after the inner computation completed
    /\ cpc = "done" => cpos = Len(prog) /\ req = None

C15_Act ==
    \* nothing is resumed once the scheduler or the chain completed
    /\ spc # "done"
    /\ cpc # "done"
    \* a dead root is not resumed
    /\ (spc # "idle" /\ generator = None) =>
          generator' = None /\ rootResumes' = rootResumes
    \* a resume of the root is a resume of a live root
    /\ rootResumes' # rootResumes => generator # None
    \* a completed task stays completed, and the task a poll resumes is not one
    /\ completed \subseteq completed'
    /\ (spc = "poll" /\ iter' # iter) =>
          /\ iter[FirstKey(iter)].gen \notin completed
          /\ iter' = MapRemove(iter, FirstKey(iter))
    \* a layer completes on the resume in which what is below it completes,
    \* and does not call its handler on it
    /\ lpc' = "done" => /\ spc = "poll"
                        /\ spc' = "done"
                        /\ log' = log
                        /\ context' = context
                        /\ lout' = lout
    /\ cpc' = "done" => /\ cpc = "resume"
                        /\ cpos = Len(prog)
                        /\ calls' = calls
                        /\ yields' = yields
                        /\ streams' = streams

\* C15: a computation that signalled completion is never resumed again, by
\* the scheduler (root and sub-tasks) or by a handler layer, and a layer
\* completes with its inner computation without calling its handler.
C15_NoResumeAfterCompletion == [](C15_Inv) /\ [][C15_Act]_vars

\* The root completed at its second resume while the task it had spawned
\* lived on; the task completed two ticks later and the scheduler with it.
C15_Witness ==
    /\ spc = "done"
    /\ lpc = "done"
    /\ rootResumes = 2
    /\ ticks >= 3
    /\ generator = None
    /\ Cardinality(completed) = 1
    /\ log = <<Ev("task", "complete", 1, None)>>


\* ---------------------------------------------------------------- handler chain, continued
LastCall == calls[Len(calls)]

\* The inner computation is about to be resumed after a request of its own.
ResumedAfterRequest == cpc = "resume" /\ cpos > 0

C16_Inv ==
    ResumedAfterRequest =>
        /\ calls # <<>>
        /\ LastCall.ok
        /\ LastCall.req = prog[cpos]
        /\ LastCall.val # None
        /\ context = LastCall.val

\* The step of a layer whose handler accepted.
C16_Act ==
    (calls' # calls /\ calls'[Len(calls')].ok) =>
        /\ \E r \in HandleOutcomes(handlers[level], streams[level], req[1]) :
              /\ r.res = "ok"
              /\ calls'[Len(calls')].val = Some(r.val)
        /\ context' = calls'[Len(calls')].val
        /\ yields' = yields
        /\ cpc' = "resume"
        /\ cpos' = cpos
        /\ req' = None

\* C16: a layer whose handler accepts stores the result in the mailbox and
\* resumes the inner computation without yielding, and whenever the inner
\* computation is resumed after a request the mailbox holds that request's result.
C16_AcceptStoresAndResumes == [](C16_Inv) /\ [][C16_Act]_vars

\* The second request was declined by the first layer and accepted by the
\* second, after a first request with another result.
C16_Witness ==
    /\ ResumedAfterRequest
    /\ cpos = 2
    /\ Len(handlers) = 2
    /\ Len(calls) = 3
    /\ calls[1].ok
    /\ LastCall.layer = 2
    /\ LastCall.req = prog[2]
    /\ LastCall.ok
    /\ calls[1].val # LastCall.val
    /\ context = LastCall.val
    /\ yields[2] = <<>>


\* The number of the request of the inner computation that call i is about:
\* every request is offered to the first attached handler first.
ReqIndex(i) == Cardinality({j \in 1..i : calls[j].layer = 1})

C17_Inv ==
    /\ \A i \in 1..Len(calls) :
          /\ calls[i].layer \in 1..Len(handlers)
          /\ ReqIndex(i) \in 1..cpos
          /\ calls[i].req = prog[ReqIndex(i)]
          /\ (calls[i].ok \/ calls[i].panic) <=>
                calls[i].req.kind \in handlers[calls[i].layer]
          /\ calls[i].panic => i = Len(calls) /\ cpc = "hpanic"
          \* the first attached handler is called first, after the request
          \* before was accepted
          /\ calls[i].layer = 1 => i = 1 \/ calls[i - 1].ok
          \* a later one is called right after the one before it declined
          /\ calls[i].layer > 1 =>
                /\ i > 1
                /\ calls[i - 1].layer = calls[i].layer - 1
                /\ ~calls[i - 1].ok
                /\ ~calls[i - 1].panic
                /\ calls[i - 1].req = calls[i].req
          \* nobody is called after the handler that accepted
          /\ (calls[i].ok /\ i < Len(calls)) => calls[i + 1].layer = 1
          \* a declined request goes on to the next handler, if any
          /\ (~calls[i].ok /\ i < Len(calls)) => calls[i + 1].layer = calls[i].layer + 1
    \* each handler is called at most once for a request
    /\ \A i, j \in 1..Len(calls) :
          (ReqIndex(i) = ReqIndex(j) /\ calls[i].layer = calls[j].layer) => i = j
    \* when a request is settled, it was offered down to the handler that
    \* accepted it, or to all of them
    /\ (Len(handlers) > 0 /\ cpc \in {"resume", "done"} /\ cpos > 0) =>
          ReqIndex(Len(calls)) = cpos /\ LastCall.ok
    /\ (Len(handlers) > 0 /\ cpc = "panic") =>
          /\ ReqIndex(Len(calls)) = cpos
          /\ LastCall = [layer |-> Len(handlers), req |-> prog[cpos], ok |-> FALSE,
                         panic |-> FALSE, val |-> None]

\* C17: each request is offered to the handlers in attachment order; a later
\* handler is called only when all before it declined, each at most once for
\* a request, and none after the one that accepted.
C17_StackedOrder == [](C17_Inv)

\* The first request was declined by the first handler and accepted by the
\* second, the next one was accepted by the first.
C17_Witness ==
    /\ Len(handlers) = 2
    /\ Len(calls) = 3
    /\ calls[1] = [layer |-> 1, req |-> prog[1], ok |-> FALSE, panic |-> FALSE,
                   val |-> None]
    /\ calls[2].layer = 2 /\ calls[2].req = prog[1] /\ calls[2].ok
    /\ calls[3].layer = 1 /\ calls[3].req = prog[2] /\ calls[3].ok
    /\ cpc = "resume"


\* ---------------------------------------------------------------- scheduler claims, continued
\* The root forwarded a request in the tick that ended, the handler accepted
\* it, and the root is about to be resumed.
RootAwaitsResult ==
    /\ TickEnded
    /\ spc = "root"
    /\ generator # None
    /\ Len(log) >= 3
    /\ log[1].who = "root"
    /\ log[1].what = "forward"
    /\ log[3].who = "handler"
    /\ log[3].what = "ok"

\* C18: when the root is resumed after a request the handler accepted, the
\* mailbox holds the result the handler gave for that request.
C18_RootFindsResult == RootAwaitsResult => context = log[3].val


\* ---------------------------------------------------------------- Select
SelectInit == MboxInit

\* The generator panicked in the unwrap() of a perform!: it is gone, and
\* with it the run that fed its mailbox.
SelectPanicked ==
    /\ hist # <<>>
    /\ hist[Len(hist)].op = "perform"
    /\ hist[Len(hist)].arg = None

\* A handler layer stores a result.
SelectPut(o) ==
    /\ Len(hist) < MaxOps
    /\ ~SelectPanicked
    /\ context' = ContextPut(context, o)
    /\ hist' = Append(hist, [op |-> "put", part |-> "", before |-> context,
                             arg |-> Some(o)])
    /\ UNCHANGED <<chainVars, schedVars>>

\* The computation selects a part and looks at the Option it gets:
\* Context::take::<Part>(), that is Select::take(ctx).
SelectTakeStep(p) ==
    /\ Len(hist) < MaxOps
    /\ ~SelectPanicked
    /\ LET s == SelectTake(context, p)
       IN /\ context' = s.ctx
          /\ hist' = Append(hist, [op |-> "select", part |-> p,
                                   before |-> context, arg |-> s.ret])
    /\ UNCHANGED <<chainVars, schedVars>>

\* The computation is resumed in a perform!(e, ctx):
\* Select::take(ctx).unwrap(), which panics on None.
PerformStep(p) ==
    /\ Len(hist) < MaxOps
    /\ ~SelectPanicked
    /\ LET s == SelectTake(context, p)
       IN /\ context' = s.ctx
          /\ hist' = Append(hist, [op |-> "perform", part |-> p,
                                   before |-> context, arg |-> s.ret])
    /\ UNCHANGED <<chainVars, schedVars>>

SelectNext ==
    \/ \E o \in SelectOutputs : SelectPut(o)
    \/ \E p \in Parts : SelectTakeStep(p)
    \/ \E p \in Parts : PerformStep(p)

SpecSelect == SelectInit /\ [][SelectNext]_vars

LastOp == hist[Len(hist)]

\* What the last select found stored was of the variant mapped to its part.
Matched == LastOp.before # None /\ LastOp.before[1].variant = PartVariant(LastOp.part)

\* C19: a select returns the part exactly when the stored result is of the
\* variant mapped to it, and when it returns nothing it leaves the mailbox
\* as it found it.
C19_SelectPure ==
    (hist # <<>> /\ LastOp.op \in {"select", "perform"}) =>
        /\ LastOp.arg # None <=> Matched
        /\ Matched => LastOp.arg = Some([part |-> LastOp.part, v |-> LastOp.before[1].v])
        /\ ~Matched => context = LastOp.before


\* ---------------------------------------------------------------- scheduler claims, continued
\* The root's resume of the current tick yielded a Spawn request.
SpawnTick == log # <<>> /\ log[1].who = "root" /\ log[1].what = "spawn"
Fresh == [gen |-> Len(spawnOrder), n |-> 0, last |-> None]

C20_Inv ==
    SpawnTick =>
        LET id == log[1].id
        IN \* the pass of the same tick follows the Spawn at once
           /\ spc \in {"poll", "yieldTask", "root", "done"}
           \* in it the new task waits for its first resume, or had it
           /\ InPass =>
                 /\ tasks[id] = Fresh
                 /\ \/ id \in DOMAIN iter /\ iter[id] = Fresh /\ id \notin PolledSet
                    \/ id \notin DOMAIN iter /\ id \in PolledSet
                 /\ id \in DOMAIN new_tasks =>
                       new_tasks[id].gen = Fresh.gen /\ new_tasks[id].n = 1
           \* when the pass ended it was resumed once, and never before
           /\ TickEnded =>
                 /\ id \in PolledSet
                 /\ id \in DOMAIN tasks =>
                       tasks[id].gen = Fresh.gen /\ tasks[id].n = 1

\* The root is not resumed again before the task it spawned was polled.
C20_Act ==
    (SpawnTick /\ rootResumes' # rootResumes) => log[1].id \in PolledSet

\* C20: a task the root spawns is polled for the first time in the pass of
\* the same tick, before the root is resumed again.
C20_PolledInSpawnTick == [](C20_Inv) /\ [][C20_Act]_vars

\* The root's second Spawn: the older task 1 and the new task 2 were both
\* polled in the tick, task 2 for the first time.
C20_Witness ==
    /\ TickEnded
    /\ spc = "root"
    /\ spawnOrder = <<1, 2>>
    /\ SpawnTick
    /\ log[1] = Ev("root", "spawn", 2, Some([kind |-> "Spawn", arg |-> 2]))
    /\ PolledIds = <<1, 2>>
    /\ DOMAIN tasks = {1, 2}
    /\ tasks[1].n = 2
    /\ tasks[2] = [gen |-> 2, n |-> 1, last |-> None]


Range(s) == {s[i] : i \in 1..Len(s)}

\* The entries of t2 that t1 does not have, or has from another spawn.
Gained(t1, t2) ==
    {id \in DOMAIN t2 : id \notin DOMAIN t1 \/ t2[id].gen # t1[id].gen}

\* A key of a table is the id of a Spawn request the root yielded, and the
\* entry under it was made by such a request.
RootSpawned(t) ==
    /\ DOMAIN t \subseteq Range(spawnOrder)
    /\ \A id \in DOMAIN t :
          /\ t[id].gen \in 1..Len(spawnOrder)
          /\ spawnOrder[t[id].gen] = id

C21_Inv ==
    /\ RootSpawned(tasks)
    /\ InPass => RootSpawned(iter) /\ RootSpawned(new_tasks)
    \* what a task forwards is what the scheduler yields, spawn request or not
    /\ \A i \in 1..Len(log) :
          (log[i].who = "task" /\ log[i].what = "forward") =>
              /\ i < Len(log)
              /\ log[i + 1] = Ev("sched", "yield", log[i].id, log[i].val)
    /\ spc = "yieldTask" =>
          /\ sout = log[LastIndex(IsYield)].val
          /\ log[LastIndex(IsYield) - 1].who = "task"

C21_Act ==
    \* the table gains an entry only by a Spawn request of the root
    /\ Gained(tasks, tasks') # {} =>
          /\ spc = "root"
          /\ rootResumes' = rootResumes + 1
          /\ log'[1].who = "root"
          /\ IsTask(log'[1].val[1])
          /\ Gained(tasks, tasks') = {TaskIdOf(log'[1].val[1])}
          /\ spawnOrder' = Append(spawnOrder, TaskIdOf(log'[1].val[1]))
    /\ spawnOrder' # spawnOrder => Gained(tasks, tasks') # {}
    \* the poll of a task adds nothing but the polled task itself
    /\ (InPass /\ InPass') =>
          /\ DOMAIN new_tasks' \subseteq DOMAIN new_tasks \cup (DOMAIN iter \ DOMAIN iter')
          /\ DOMAIN iter' \subseteq DOMAIN iter
          /\ tasks' = tasks

\* C21: the table gains an entry only when the root yields a request for
\* which is_task() succeeds; a request a sub-task forwards is yielded by the
\* scheduler as it is, a spawn request included, and adds no task; the keys
\* of the table are ids of Spawn requests of the root.
C21_OnlyRootSpawns == [](C21_Inv) /\ [][C21_Act]_vars

\* Task 2, the only task the root spawned, forwarded a spawn request for
\* id 1: the scheduler yielded it, and the table still holds task 2 alone.
C21_Witness ==
    /\ TickEnded
    /\ spawnOrder = <<2>>
    /\ Len(log) >= 2
    /\ log[Len(log) - 1] = Ev("task", "forward", 2, Some([kind |-> "Spawn", arg |-> 1]))
    /\ log[Len(log)] = Ev("sched", "yield", 2, Some([kind |-> "Spawn", arg |-> 1]))
    /\ DOMAIN tasks = {2}


\* ---------------------------------------------------------------- scheduler liveness
\* The steps of Block::spawn that run no code of the user: skipping the dead
\* root (`if let Some(g) = generator.as_mut()`, line 117) and, after the
\* for loop, `tasks = new_tasks` with the exit test (lines 143-147). They are
\* straight-line code of the scheduler, so they are taken once reached.
\* A resume of the root, a poll of a task, a call of the handler and the
\* resume by the caller run code of the user, which may never return (the
\* root of tests::simple_tcp spins in `loop { match context.take() .. }`,
\* its handler blocks in accept()): no fairness is assumed for them.
OwnStep ==
    \/ RootSkip
    \/ EndTick

SpecLive == Init /\ [][Next]_vars /\ WF_vars(OwnStep)

\* The scheduler is resumed after every request it surfaced: the handler
\* answers or declines and, when the layer yields, its caller resumes it.
CallerResumes == (sout # None) ~> (sout = None)

\* Every resume of the live root returns: the scheduler does not stay for
\* ever at line 118. The root yields at most MaxRootYields requests, so a
\* root whose resumes all return completes after finitely many of them.
RootReturns == []<>(~(spc = "root" /\ generator # None))

\* Every poll of a task returns: the scheduler does not stay for ever at
\* line 132. A task yields at most MaxTaskYields times, so a task whose
\* polls all return completes after finitely many of them.
TasksReturn == []<>(~(spc = "poll" /\ DOMAIN iter # {}))

\* The root completes after finitely many resumes.
RootCompletes == <>(generator = None)

\* Every spawned sub-task completes after finitely many polls, unless a
\* later spawn under its id replaced it before.
TasksComplete ==
    <>[](\A g \in 1..Len(spawnOrder) :
            g \in completed \/ g # LastSpawn(spawnOrder[g]))

C22_Done ==
    spc = "done" =>
        /\ generator = None
        /\ DOMAIN tasks = {}
        /\ DOMAIN new_tasks = {}
        /\ DOMAIN iter = {}
        /\ sout = None

\* C22: if the root completes after finitely many resumes, every spawned
\* sub-task completes after finitely many polls and the caller resumes the
\* scheduler after every surfaced request, the scheduler completes; it
\* already does so if every resume of the root and every poll of a task
\* returns (within the bounds on their yields) and the caller resumes; and
\* whenever it has completed the root is dead and the task table is empty.
C22_SchedulerCompletes ==
    /\ (RootCompletes /\ TasksComplete /\ CallerResumes) => <>(spc = "done")
    /\ (RootReturns /\ TasksReturn /\ CallerResumes) => <>(spc = "done")
    /\ [](C22_Done)

\* The root spawned two tasks, forwarded a request and completed; both
\* tasks completed, the scheduler is done.
C22_Witness ==
    /\ spc = "done"
    /\ rootResumes = 4
    /\ spawnOrder = <<1, 2>>
    /\ completed = {1, 2}
    /\ DOMAIN tasks = {}

====
